---- MODULE Spec2Model ----
(***************************************************************************)
(* Model of sentinel_value/sentinel_value.py: the SentinelValue class, the *)
(* global registry sentinel_value_instances, sentinel_create_lock, the     *)
(* sentinel() factory, and the way pickle and copy rebuild a sentinel.     *)
(*                                                                         *)
(* Strings are sequences of tokens, so that concatenation, the "." the     *)
(* qualified name is joined with, and str.replace(".", "_") are computed   *)
(* as the code computes them.  Python's None / Optional[x] is a sequence   *)
(* of length 0 or 1.                                                       *)
(*                                                                         *)
(* The identity of an object is <<q, k>>: the k-th object constructed for  *)
(* the qualified name q.  The identity of a class is <<module, name, k>>:  *)
(* the k-th class object created under that name in that module.           *)
(***************************************************************************)
EXTENDS Naturals, Sequences, FiniteSets, TLC

VARIABLES
    sentinel_value_instances,  \* the registry dict: qualified name -> object
    sentinel_create_lock,      \* None when free, Some(t) when thread t holds it
    objects,                   \* heap of SentinelValue objects: identity -> [cls, dict]
    classes,                   \* heap of class objects: identity -> [base, attrs]
    module_attrs,              \* globals of the modules: <<module, attr>> -> class
    pickled,                   \* data = pickle.dumps(x): the bytes a caller keeps, or None
    pc,                        \* position of each thread
    frame,                     \* local variables of each thread's current call
    first,                     \* history: <<instance_name, module_name>> -> first object returned
    held                       \* history: objects some caller has a reference to

vars == <<sentinel_value_instances, sentinel_create_lock, objects, classes,
          module_attrs, pickled, pc, frame, first, held>>

-----------------------------------------------------------------------------
\* Bounds of the model.

\* Frames on the call stack outside sentinel() and _get_caller_module_name().
MaxCallers == 2

\* Sentinels in a container given to copy.deepcopy.
MaxContainer == 2

Threads == {"t1", "t2"}

None == <<>>
Some(x) == <<x>>

\* The module the code lives in (__name__ inside sentinel_value.py).
SELF == <<"sentinel_value">>

\* Names the callers use.
ModM  == <<"m">>
ModMB == <<"m", ".", "B">>
NameA  == <<"A">>
NameBA == <<"B", ".", "A">>
NameB_A == <<"B", "_", "A">>

\* The empty string.
EmptyStr == <<>>

-----------------------------------------------------------------------------
\* Class objects: SentinelValue, and a user subclass defined in module m,
\*   class Missing(SentinelValue): pass
\* sentinel() adds generated classes to them.

ObjectClass == << <<"builtins">>, <<"object">>, 1 >>
SentinelValueClass == << SELF, <<"SentinelValue">>, 1 >>
MissingClass == << ModM, <<"Missing">>, 1 >>
NoClass == << <<>>, <<>>, 0 >>
NoObject == << <<>>, 0 >>

Method(kind, value) == [kind |-> kind, value |-> value]

\* SentinelValue without its __bool__.
SentinelValueAttrsNoBool == [a \in {"__repr__"} |-> Method("bracket", <<>>)]

\* The methods the class body of SentinelValue defines that a caller sees
\* through repr(), str() and bool().
SentinelValueAttrs ==
    [a \in {"__repr__", "__bool__"} |->
        IF a = "__repr__" THEN Method("bracket", <<>>) ELSE Method("false", <<>>)]

NoAttrs == [a \in {} |-> Method("none", <<>>)]

InitClasses ==
    [c \in {SentinelValueClass, MissingClass} |->
        IF c = SentinelValueClass
        THEN [base |-> ObjectClass, attrs |-> SentinelValueAttrs]
        ELSE [base |-> SentinelValueClass, attrs |-> NoAttrs]]

\* Attribute lookup along the class's bases (the MRO of single inheritance).
\* object defines no __bool__; its __repr__ is the address form and its
\* __str__ calls repr().
RECURSIVE LookupMethod(_, _)
LookupMethod(c, a) ==
    IF c = ObjectClass
    THEN IF a = "__repr__" THEN Method("address", <<>>)
         ELSE IF a = "__str__" THEN Method("repr", <<>>)
         ELSE Method("none", <<>>)
    ELSE IF a \in DOMAIN classes[c].attrs
         THEN classes[c].attrs[a]
         ELSE LookupMethod(classes[c].base, a)

-----------------------------------------------------------------------------
\* SentinelValue._compose_qualified_name

ComposeQualifiedName(instance_name, module_name) ==
    module_name \o <<".">> \o instance_name

\* dict.get(key): None when the key is absent.
DictGet(d, k) == IF k \in DOMAIN d THEN Some(d[k]) ELSE None

\* d[k] = v
DictSet(d, k, v) == [x \in (DOMAIN d) \cup {k} |-> IF x = k THEN v ELSE d[x]]

\* d.update(e)
DictUpdate(d, e) ==
    [x \in (DOMAIN d) \cup (DOMAIN e) |-> IF x \in DOMAIN e THEN e[x] ELSE d[x]]

EmptyDict == [x \in {} |-> <<>>]

-----------------------------------------------------------------------------
\* Thread frames.

NoFrame ==
    [op |-> "none", cls |-> NoClass, instance_name |-> <<>>, module_name |-> <<>>,
     repr |-> None, stack |-> <<>>, rest |-> <<>>, caller |-> None,
     existing_instance |-> None,
     obj |-> NoObject, state |-> EmptyDict, work |-> <<>>, out |-> <<>>,
     src |-> NoObject, created |-> FALSE, rebound |-> FALSE, ret |-> None]

Idle(t) == pc[t] = "idle"

Init ==
    /\ sentinel_value_instances = EmptyDict
    /\ sentinel_create_lock = None
    /\ objects = EmptyDict
    /\ classes = InitClasses
    /\ module_attrs = [k \in {<<SELF, <<"SentinelValue">> >>, <<ModM, <<"Missing">> >>} |->
                          IF k[1] = SELF THEN SentinelValueClass ELSE MissingClass]
    /\ pickled = None
    /\ pc = [t \in Threads |-> "idle"]
    /\ frame = [t \in Threads |-> NoFrame]
    /\ first = EmptyDict
    /\ held = {}

-----------------------------------------------------------------------------
\* SentinelValue.__new__(cls, instance_name, module_name)

\* The check-then-create sequence run without waiting for the lock.
LockIgnored(t) == TRUE

\* `with sentinel_create_lock:` blocks until the lock is free.
LockAvailable(t) == sentinel_create_lock = None

\* The lock still held after the block.
ExitWithKeepsLock(lock) == lock

\* Leaving the `with sentinel_create_lock:` block, by return or by an
\* exception, releases the lock.
ExitWith(lock) == None

QualifiedNameOf(t) ==
    ComposeQualifiedName(frame[t].instance_name, frame[t].module_name)

\* Where the caller of __new__ continues: type.__call__ runs __init__ on the
\* returned object (it is always an instance of cls here, __new__ has bound
\* it to cls); copy and pickle restore the saved __dict__ instead.
AfterNew(t) == IF frame[t].op \in {"call", "sentinel"} THEN "init" ELSE "restore"

\* The lookup left out: every call takes the miss path.
LookupExistingNever(reg, qualified_name) == None

\* existing_instance = sentinel_value_instances.get(qualified_name)
LookupExisting(reg, qualified_name) == DictGet(reg, qualified_name)

\* Enter the `with` block and look the qualified name up in the registry.
NewEnter(t) ==
    /\ pc[t] = "new_enter"
    /\ LockAvailable(t)
    /\ sentinel_create_lock' = Some(t)
    /\ frame' = [frame EXCEPT ![t].existing_instance =
                     LookupExisting(sentinel_value_instances, QualifiedNameOf(t))]
    /\ pc' = [pc EXCEPT ![t] = "new_body"]
    /\ UNCHANGED <<sentinel_value_instances, objects, classes, module_attrs,
                   pickled, first, held>>

\* No rebinding: the existing instance keeps the class it was created with.
RebindClassNever(old, cls) == old

\* The class the existing instance has once __new__(cls, ...) found it.
RebindClass(old, cls) == IF old # cls THEN cls ELSE old

\* existing_instance is not None: rebind its class, return it, leave the block.
NewHit(t) ==
    /\ pc[t] = "new_body"
    /\ frame[t].existing_instance # None
    /\ LET o == frame[t].existing_instance[1] IN
        /\ objects' = [objects EXCEPT ![o].cls = RebindClass(@, frame[t].cls)]
        /\ frame' = [frame EXCEPT ![t].obj = o,
                                  ![t].existing_instance = None,
                                  ![t].rebound = (objects[o].cls # frame[t].cls)]
    /\ sentinel_create_lock' = ExitWith(sentinel_create_lock)
    /\ pc' = [pc EXCEPT ![t] = AfterNew(t)]
    /\ UNCHANGED <<sentinel_value_instances, classes, module_attrs, pickled,
                   first, held>>

\* The identity of the next object constructed for a qualified name.
NewObject(q) == <<q, Cardinality({o \in DOMAIN objects : o[1] = q}) + 1>>

\* The new instance constructed but never put into the registry.
StoreInstanceForgotten(reg, qualified_name, o) == reg

\* The registry replaced by one that holds the new instance only.
StoreInstanceAlone(reg, qualified_name, o) == [x \in {qualified_name} |-> o]

\* The registry after `sentinel_value_instances[qualified_name] = new_instance`.
StoreInstance(reg, qualified_name, o) == DictSet(reg, qualified_name, o)

\* No existing instance: construct one, store it, return it, leave the block.
NewMiss(t) ==
    /\ pc[t] = "new_body"
    /\ frame[t].existing_instance = None
    /\ LET o == NewObject(QualifiedNameOf(t)) IN
        /\ objects' = DictSet(objects, o, [cls |-> frame[t].cls, dict |-> EmptyDict])
        /\ sentinel_value_instances' =
               StoreInstance(sentinel_value_instances, QualifiedNameOf(t), o)
        /\ frame' = [frame EXCEPT ![t].obj = o, ![t].created = TRUE]
    /\ sentinel_create_lock' = ExitWith(sentinel_create_lock)
    /\ pc' = [pc EXCEPT ![t] = AfterNew(t)]
    /\ UNCHANGED <<classes, module_attrs, pickled, first, held>>

\* No existing instance, and super().__new__(cls) raises (MemoryError): the
\* exception leaves the block and the call; nothing was stored.
NewMissRaises(t) ==
    /\ pc[t] = "new_body"
    /\ frame[t].existing_instance = None
    /\ sentinel_create_lock' = ExitWith(sentinel_create_lock)
    /\ pc' = [pc EXCEPT ![t] = "raised"]
    /\ UNCHANGED <<sentinel_value_instances, objects, classes, module_attrs,
                   pickled, frame, first, held>>

-----------------------------------------------------------------------------
\* SentinelValue.__init__(self, instance_name, module_name), which
\* type.__call__ runs on whatever __new__ returned, outside the lock; the
\* call then returns the object.  The three attribute stores are one step.

InitDict(d, instance_name, module_name) ==
    DictSet(DictSet(DictSet(d, "instance_name", instance_name),
                    "module_name", module_name),
            "qualified_name", ComposeQualifiedName(instance_name, module_name))

\* The history of what the creation calls returned.
RecordFirst(pair, o) == IF pair \in DOMAIN first THEN first ELSE DictSet(first, pair, o)

InitObject(t) ==
    /\ pc[t] = "init"
    /\ objects' = [objects EXCEPT ![frame[t].obj].dict =
                       InitDict(@, frame[t].instance_name, frame[t].module_name)]
    /\ frame' = [frame EXCEPT ![t].ret = Some(frame[t].obj)]
    /\ first' = RecordFirst(<<frame[t].instance_name, frame[t].module_name>>, frame[t].obj)
    /\ held' = held \cup {frame[t].obj}
    /\ pc' = [pc EXCEPT ![t] = "done"]
    /\ UNCHANGED <<sentinel_value_instances, sentinel_create_lock, classes,
                   module_attrs, pickled>>

-----------------------------------------------------------------------------
\* A caller evaluates cls(instance_name, module_name) with cls one of the
\* classes defined in source code: SentinelValue or the subclass Missing.

CallClass(t, cls, instance_name, module_name) ==
    /\ Idle(t)
    /\ frame' = [frame EXCEPT ![t] =
           [NoFrame EXCEPT !.op = "call", !.cls = cls,
                           !.instance_name = instance_name,
                           !.module_name = module_name]]
    /\ pc' = [pc EXCEPT ![t] = "new_enter"]
    /\ UNCHANGED <<sentinel_value_instances, sentinel_create_lock, objects,
                   classes, module_attrs, pickled, first, held>>

-----------------------------------------------------------------------------
\* sentinel(instance_name, repr=None)

\* The walk replaced by a look at the outermost frame.
GetCallerModuleNameOutermost(stack) ==
    IF stack = <<>> THEN None ELSE Some(stack[Len(stack)])

\* _get_caller_module_name: walk the frames from the innermost one outward and
\* stop at the first one that is not in this module.  `stack` lists the
\* module of each frame, innermost first; inspect.currentframe() returning
\* None is the empty stack.
RECURSIVE GetCallerModuleName(_)
GetCallerModuleName(stack) ==
    IF stack = <<>> THEN None
    ELSE IF Head(stack) # SELF THEN Some(Head(stack))
    ELSE GetCallerModuleName(Tail(stack))

\* The loop of _get_caller_module_name, one iteration a step.  `rest` is the
\* local `frame`: the frames from the current one outward, empty when the
\* f_back chain has ended.

\* Every frame taken for one outside this module.
IsOutsideAlways(module_name) == TRUE

\* module_name != __name__
IsOutside(module_name) == module_name # SELF

\* frame = inspect.currentframe()
WalkBegin(t, stack) ==
    /\ Idle(t)
    /\ frame' = [frame EXCEPT ![t] =
           [NoFrame EXCEPT !.op = "get_caller", !.stack = stack, !.rest = stack]]
    /\ pc' = [pc EXCEPT ![t] = "walk"]
    /\ UNCHANGED <<sentinel_value_instances, sentinel_create_lock, objects,
                   classes, module_attrs, pickled, first, held>>

\* if module_name != __name__: return module_name
WalkReturn(t) ==
    /\ pc[t] = "walk"
    /\ frame[t].rest # <<>>
    /\ IsOutside(Head(frame[t].rest))
    /\ frame' = [frame EXCEPT ![t].caller = Some(Head(frame[t].rest))]
    /\ pc' = [pc EXCEPT ![t] = "done"]
    /\ UNCHANGED <<sentinel_value_instances, sentinel_create_lock, objects,
                   classes, module_attrs, pickled, first, held>>

\* frame = frame.f_back
WalkBack(t) ==
    /\ pc[t] = "walk"
    /\ frame[t].rest # <<>>
    /\ ~IsOutside(Head(frame[t].rest))
    /\ frame' = [frame EXCEPT ![t].rest = Tail(frame[t].rest)]
    /\ UNCHANGED <<sentinel_value_instances, sentinel_create_lock, objects,
                   classes, module_attrs, pickled, pc, first, held>>

\* `while frame:` ends; return None
WalkNone(t) ==
    /\ pc[t] = "walk"
    /\ frame[t].rest = <<>>
    /\ frame' = [frame EXCEPT ![t].caller = None]
    /\ pc' = [pc EXCEPT ![t] = "done"]
    /\ UNCHANGED <<sentinel_value_instances, sentinel_create_lock, objects,
                   classes, module_attrs, pickled, first, held>>

\* str.replace(".", "_")
RECURSIVE ReplaceDots(_)
ReplaceDots(name) ==
    IF name = <<>> THEN <<>>
    ELSE <<IF Head(name) = "." THEN "_" ELSE Head(name)>> \o ReplaceDots(Tail(name))

\* class_name = "_sentinel_" + instance_name.replace(".", "_")
SentinelClassName(instance_name) == <<"_sentinel_">> \o ReplaceDots(instance_name)

\* `if repr:`, `assert module_name` -- None and the empty string are both
\* false.
Truthy(repr) == repr # None /\ repr[1] # <<>>

\* module_name = _get_caller_module_name(); assert module_name  -- passes,
\* and _create_sentinel_value_subclass is entered.
Sentinel(t, instance_name, repr, stack) ==
    /\ Idle(t)
    /\ Truthy(GetCallerModuleName(stack))
    /\ frame' = [frame EXCEPT ![t] =
           [NoFrame EXCEPT !.op = "sentinel", !.instance_name = instance_name,
                           !.repr = repr, !.stack = stack,
                           !.module_name = GetCallerModuleName(stack)[1]]]
    /\ pc' = [pc EXCEPT ![t] = "s_lookup"]
    /\ UNCHANGED <<sentinel_value_instances, sentinel_create_lock, objects,
                   classes, module_attrs, pickled, first, held>>

\* module_name = _get_caller_module_name(); assert module_name  -- fails:
\* the call raises AssertionError.
SentinelAssertFails(t, instance_name, repr, stack) ==
    /\ Idle(t)
    /\ ~Truthy(GetCallerModuleName(stack))
    /\ frame' = [frame EXCEPT ![t] =
           [NoFrame EXCEPT !.op = "sentinel", !.instance_name = instance_name,
                           !.repr = repr, !.stack = stack]]
    /\ pc' = [pc EXCEPT ![t] = "raised"]
    /\ UNCHANGED <<sentinel_value_instances, sentinel_create_lock, objects,
                   classes, module_attrs, pickled, first, held>>

ClassKey(t) == <<frame[t].module_name, SentinelClassName(frame[t].instance_name)>>

\* The check left out: a class is created on every call.
HasAttrNever(attrs, key) == FALSE

\* hasattr(module, class_name)
HasAttr(attrs, key) == key \in DOMAIN attrs

\* _create_sentinel_value_subclass: hasattr(module, class_name) is true
SubclassExists(t) ==
    /\ pc[t] = "s_lookup"
    /\ HasAttr(module_attrs, ClassKey(t))
    /\ frame' = [frame EXCEPT ![t].cls = module_attrs[ClassKey(t)], ![t].stack = <<>>]
    /\ pc' = [pc EXCEPT ![t] = "s_repr"]
    /\ UNCHANGED <<sentinel_value_instances, sentinel_create_lock, objects,
                   classes, module_attrs, pickled, first, held>>

\* _create_sentinel_value_subclass: hasattr(module, class_name) is false
SubclassMissing(t) ==
    /\ pc[t] = "s_lookup"
    /\ ~HasAttr(module_attrs, ClassKey(t))
    /\ frame' = [frame EXCEPT ![t].stack = <<>>]
    /\ pc' = [pc EXCEPT ![t] = "s_create"]
    /\ UNCHANGED <<sentinel_value_instances, sentinel_create_lock, objects,
                   classes, module_attrs, pickled, first, held>>

\* The identity of the next class object created under a module attribute.
NewClass(key) ==
    <<key[1], key[2], Cardinality({c \in DOMAIN classes : c[1] = key[1] /\ c[2] = key[2]}) + 1>>

\* type(class_name, (SentinelValue,), {}); setattr(module, class_name, ...)
SubclassCreate(t) ==
    /\ pc[t] = "s_create"
    /\ LET c == NewClass(ClassKey(t)) IN
        /\ classes' = DictSet(classes, c, [base |-> SentinelValueClass, attrs |-> NoAttrs])
        /\ module_attrs' = DictSet(module_attrs, ClassKey(t), c)
        /\ frame' = [frame EXCEPT ![t].cls = c]
    /\ pc' = [pc EXCEPT ![t] = "s_repr"]
    /\ UNCHANGED <<sentinel_value_instances, sentinel_create_lock, objects,
                   pickled, first, held>>

\* The attributes of the class after
\*   if repr: SentinelValueSubclass.__repr__ = lambda self: repr
InstallRepr(attrs, repr) ==
    IF Truthy(repr) THEN DictSet(attrs, "__repr__", Method("const", repr[1])) ELSE attrs

\* `if repr: ...`, then the call SentinelValueSubclass(instance_name, module_name)
SentinelRepr(t) ==
    /\ pc[t] = "s_repr"
    /\ classes' = [classes EXCEPT ![frame[t].cls].attrs = InstallRepr(@, frame[t].repr)]
    /\ pc' = [pc EXCEPT ![t] = "new_enter"]
    /\ UNCHANGED <<sentinel_value_instances, sentinel_create_lock, objects,
                   module_attrs, pickled, frame, first, held>>

-----------------------------------------------------------------------------
\* What a caller sees of an object.

Attr(o, a) == objects[o].dict[a]

\* The qualified name shown instead of the instance name.
BracketReprQualified(o) ==
    IF "qualified_name" \in DOMAIN objects[o].dict
    THEN <<"<">> \o objects[o].dict["qualified_name"] \o <<">">>
    ELSE <<"AttributeError">>

\* SentinelValue.__repr__
BracketRepr(o) ==
    IF "instance_name" \in DOMAIN objects[o].dict
    THEN <<"<">> \o Attr(o, "instance_name") \o <<">">>
    ELSE <<"AttributeError">>

\* repr(o): the __repr__ the class of o resolves to.
Repr(o) ==
    LET m == LookupMethod(objects[o].cls, "__repr__") IN
    IF m.kind = "bracket" THEN BracketRepr(o)
    ELSE IF m.kind = "const" THEN m.value
    ELSE <<"object at">>

\* str(o): no class here defines __str__, and object.__str__ is repr().
Str(o) ==
    LET m == LookupMethod(objects[o].cls, "__str__") IN
    IF m.kind = "repr" THEN Repr(o) ELSE m.value

\* bool(o): the class's __bool__; an object without one (and without
\* __len__) is true.
Bool(o) ==
    LET m == LookupMethod(objects[o].cls, "__bool__") IN
    IF m.kind = "false" THEN FALSE ELSE TRUE

-----------------------------------------------------------------------------
\* copy.copy(x), copy.deepcopy(x) and copy.deepcopy(container).  The copy
\* module calls x.__reduce_ex__(4), which gives
\*   (copyreg.__newobj__, (type(x),) + x.__getnewargs__(), x.__dict__)
\* and rebuilds with type(x).__new__(type(x), *args), then updates the
\* __dict__ of the result with the state.

\* The two arguments in the wrong order.
GetNewArgsSwapped(o) == <<objects[o].dict["module_name"], objects[o].dict["instance_name"]>>

\* SentinelValue.__getnewargs__
GetNewArgs(o) == <<Attr(o, "instance_name"), Attr(o, "module_name")>>

SingleOps == {"copy", "deepcopy", "loads"}

BeginCopy(t, kind, o) ==
    /\ Idle(t)
    /\ o \in held
    /\ frame' = [frame EXCEPT ![t] = [NoFrame EXCEPT !.op = kind, !.work = <<o>>]]
    /\ pc' = [pc EXCEPT ![t] = "reduce"]
    /\ UNCHANGED <<sentinel_value_instances, sentinel_create_lock, objects,
                   classes, module_attrs, pickled, first, held>>

\* The container is a list (or the values of a dict) of sentinels.
BeginDeepCopyContainer(t, c) ==
    /\ Idle(t)
    /\ \A i \in DOMAIN c : c[i] \in held
    /\ frame' = [frame EXCEPT ![t] =
           [NoFrame EXCEPT !.op = "deepcopy_container", !.work = c]]
    /\ pc' = [pc EXCEPT ![t] = "reduce"]
    /\ UNCHANGED <<sentinel_value_instances, sentinel_create_lock, objects,
                   classes, module_attrs, pickled, first, held>>

NextItem(t) == frame[t].work[Len(frame[t].out) + 1]

\* Positions of the work list already copied that hold the same object: the
\* memo of deepcopy.
Memo(t) == {j \in 1..Len(frame[t].out) : frame[t].work[j] = NextItem(t)}

CopyNextPc(t, out) == IF Len(out) = Len(frame[t].work) THEN "done" ELSE "reduce"

\* deepcopy finds the object in its memo.
ReduceMemo(t) ==
    /\ pc[t] = "reduce"
    /\ Memo(t) # {}
    /\ LET out == Append(frame[t].out, frame[t].out[CHOOSE j \in Memo(t) : TRUE]) IN
        /\ frame' = [frame EXCEPT ![t].out = out]
        /\ pc' = [pc EXCEPT ![t] = CopyNextPc(t, out)]
    /\ UNCHANGED <<sentinel_value_instances, sentinel_create_lock, objects,
                   classes, module_attrs, pickled, first, held>>

\* x.__reduce_ex__(4), then the call of type(x).__new__
Reduce(t) ==
    /\ pc[t] = "reduce"
    /\ Memo(t) = {}
    /\ LET x == NextItem(t) IN
        frame' = [frame EXCEPT ![t].cls = objects[x].cls,
                               ![t].instance_name = GetNewArgs(x)[1],
                               ![t].module_name = GetNewArgs(x)[2],
                               ![t].state = objects[x].dict,
                               ![t].src = x,
                               ![t].created = FALSE,
                               ![t].rebound = FALSE]
    /\ pc' = [pc EXCEPT ![t] = "new_enter"]
    /\ UNCHANGED <<sentinel_value_instances, sentinel_create_lock, objects,
                   classes, module_attrs, pickled, first, held>>

\* The state the rebuilt object is updated with: copy.copy passes the live
\* __dict__ of x, deepcopy and pickle a copy made when x was reduced.
StateToRestore(t) ==
    IF frame[t].op = "copy" THEN objects[frame[t].src].dict ELSE frame[t].state

\* y.__dict__.update(state); the rebuilt object is handed to the caller.
Restore(t) ==
    /\ pc[t] = "restore"
    /\ objects' = [objects EXCEPT ![frame[t].obj].dict = DictUpdate(@, StateToRestore(t))]
    /\ LET out == Append(frame[t].out, frame[t].obj) IN
        /\ frame' = [frame EXCEPT ![t].out = out,
                                  ![t].ret = IF frame[t].op \in SingleOps
                                             THEN Some(frame[t].obj) ELSE None]
        /\ pc' = [pc EXCEPT ![t] = IF frame[t].op \in SingleOps THEN "done"
                                   ELSE CopyNextPc(t, out)]
    /\ held' = held \cup {frame[t].obj}
    /\ UNCHANGED <<sentinel_value_instances, sentinel_create_lock, classes,
                   module_attrs, pickled, first>>

-----------------------------------------------------------------------------
\* pickle.dumps(x) and pickle.loads(bytes), protocol 4.  The bytes name the
\* class by (module, name), hold the __getnewargs__ tuple for NEWOBJ and the
\* __dict__ for BUILD.  `src` is not in the bytes: it records which object
\* they were made from.

ClassRef(c) == <<c[1], c[2]>>

PickleOf(o) ==
    [cls |-> ClassRef(objects[o].cls), args |-> GetNewArgs(o),
     state |-> objects[o].dict, src |-> o]

\* pickle refuses a class that its name does not lead back to.
Picklable(o) == DictGet(module_attrs, ClassRef(objects[o].cls)) = Some(objects[o].cls)

Dumps(t, o) ==
    /\ Idle(t)
    /\ o \in held
    /\ Picklable(o)
    /\ pickled # Some(PickleOf(o))
    /\ pickled' = Some(PickleOf(o))
    /\ UNCHANGED <<sentinel_value_instances, sentinel_create_lock, objects,
                   classes, module_attrs, pc, frame, first, held>>

\* find_class(module, name), then NEWOBJ calls cls.__new__(cls, *args)
Loads(t) ==
    /\ Idle(t)
    /\ pickled # None
    /\ LET b == pickled[1] IN
        /\ b.cls \in DOMAIN module_attrs
        /\ frame' = [frame EXCEPT ![t] =
               [NoFrame EXCEPT !.op = "loads", !.cls = module_attrs[b.cls],
                               !.instance_name = b.args[1], !.module_name = b.args[2],
                               !.state = b.state, !.src = b.src]]
    /\ pc' = [pc EXCEPT ![t] = "new_enter"]
    /\ UNCHANGED <<sentinel_value_instances, sentinel_create_lock, objects,
                   classes, module_attrs, pickled, first, held>>

-----------------------------------------------------------------------------
\* The caller has the result (or the exception) of its call and goes on; the
\* frame of the call is gone.
Return(t) ==
    /\ pc[t] \in {"done", "raised"}
    /\ pc' = [pc EXCEPT ![t] = "idle"]
    /\ frame' = [frame EXCEPT ![t] = NoFrame]
    /\ UNCHANGED <<sentinel_value_instances, sentinel_create_lock, objects,
                   classes, module_attrs, pickled, first, held>>

-----------------------------------------------------------------------------
\* sentinel_value_instances.clear(): the test fixture runs it after a test,
\* when no call is in progress and the test's references to its sentinels
\* are gone with the test; only bytes pickled earlier are kept.

Quiescent == \A t \in Threads : Idle(t)

Clear ==
    /\ Quiescent
    /\ sentinel_value_instances # EmptyDict
    /\ sentinel_value_instances' = EmptyDict
    /\ objects' = EmptyDict
    /\ held' = {}
    /\ first' = EmptyDict
    /\ pickled' = IF pickled = None THEN None
                  ELSE Some([pickled[1] EXCEPT !.src = NoObject])
    /\ UNCHANGED <<sentinel_create_lock, classes, module_attrs, pc, frame>>

-----------------------------------------------------------------------------
\* What the callers call with.

SeqsUpTo(S, n) == UNION {[1..k -> S] : k \in 0..n}

\* (instance_name, module_name) pairs: two of them compose to "m.B.A".
CallPairs == {<<NameA, ModM>>, <<NameBA, ModM>>, <<NameA, ModMB>>}

CallClasses == {SentinelValueClass, MissingClass}

SentinelNames == {NameA, NameBA}

\* The repr arguments: not given, empty, or a custom string.
ReprArgs == {None, Some(<<>>), Some(<<"x">>)}

\* The stacks sentinel() runs on: none when inspect.currentframe() gives
\* None, else the frames of _get_caller_module_name and of sentinel(), then
\* the callers'.
Stacks(modules) ==
    {<<>>} \cup {<<SELF, SELF>> \o outer : outer \in SeqsUpTo(modules, MaxCallers)}

Containers == {c \in SeqsUpTo(held, MaxContainer) : c # <<>>}

\* The creation calls a caller starts, and the steps of one in progress.
StartCreation(t, pairs, names, reprs, stacks) ==
    \/ \E cls \in CallClasses, p \in pairs : CallClass(t, cls, p[1], p[2])
    \/ \E n \in names, r \in reprs, st \in stacks : Sentinel(t, n, r, st)
    \/ \E n \in names, r \in reprs, st \in stacks : SentinelAssertFails(t, n, r, st)

StepCreation(t) ==
    \/ NewEnter(t)
    \/ NewHit(t)
    \/ NewMiss(t)
    \/ InitObject(t)
    \/ SubclassExists(t)
    \/ SubclassMissing(t)
    \/ SubclassCreate(t)
    \/ SentinelRepr(t)
    \/ Return(t)

\* The steps of a copy or an unpickling in progress.
StepCopy(t) ==
    \/ ReduceMemo(t)
    \/ Reduce(t)
    \/ Restore(t)

\* Threads create sentinels concurrently.
Next ==
    \/ \E t \in Threads :
          StartCreation(t, CallPairs, {NameBA}, {None, Some(<<"x">>)},
                        {<<>>, <<SELF, SELF, ModM>>})
    \/ \E t \in Threads : StepCreation(t)
    \/ Clear

Spec == Init /\ [][Next]_vars

\* One call at a time: a single thread makes the calls, each after the
\* other has returned.
MainThread == "t1"

SeqStart(t) ==
    \/ StartCreation(t, CallPairs, SentinelNames, ReprArgs, Stacks({SELF, ModM}))
    \/ \E kind \in {"copy", "deepcopy"}, o \in held : BeginCopy(t, kind, o)
    \/ \E c \in Containers : BeginDeepCopyContainer(t, c)
    \/ \E o \in held : Dumps(t, o)
    \/ Loads(t)

SeqNext ==
    \/ SeqStart(MainThread)
    \/ StepCreation(MainThread)
    \/ StepCopy(MainThread)
    \/ Clear

SeqSpec == Init /\ [][SeqNext]_vars

\* Threads create one sentinel concurrently, through SentinelValue, Missing
\* and sentinel(), and the construction of the instance can fail.  A thread
\* in a call takes its next step; a thread that waits for the lock gets it
\* if the lock is free again and again (fair scheduling).
LiveStep(t) ==
    \/ NewHit(t)
    \/ NewMiss(t)
    \/ NewMissRaises(t)
    \/ InitObject(t)
    \/ SubclassExists(t)
    \/ SubclassMissing(t)
    \/ SubclassCreate(t)
    \/ SentinelRepr(t)
    \/ Return(t)

LiveNext ==
    \/ \E t \in Threads :
          StartCreation(t, {<<NameA, ModM>>}, {NameA}, {None},
                        {<<>>, <<SELF, SELF, ModM>>})
    \/ \E t \in Threads : NewEnter(t)
    \/ \E t \in Threads : LiveStep(t)

LiveSpec ==
    /\ Init /\ [][LiveNext]_vars
    /\ \A t \in Threads : WF_vars(LiveStep(t)) /\ SF_vars(NewEnter(t))

\* _get_caller_module_name() on its own, called on every stack: none when
\* inspect.currentframe() gives None, else its own frame and, outward, frames
\* of this module and of two other modules in any order.
WalkStacks ==
    {<<>>} \cup {<<SELF>> \o outer : outer \in SeqsUpTo({SELF, ModM, ModMB}, MaxCallers + 1)}

WalkStep(t) ==
    \/ WalkReturn(t)
    \/ WalkBack(t)
    \/ WalkNone(t)
    \/ Return(t)

WalkNext ==
    \/ \E stack \in WalkStacks : WalkBegin(MainThread, stack)
    \/ WalkStep(MainThread)

\* A function that was called runs on: its next step is taken.
WalkSpec == Init /\ [][WalkNext]_vars /\ WF_vars(WalkStep(MainThread))

\* Calls with the names at the edge of what a name can be: the empty
\* instance name, the empty module name (also as the __name__ of the calling
\* module), and two instance names that differ in "." against "_" only.
EdgePairs == {<<EmptyStr, ModM>>, <<NameA, EmptyStr>>}

EdgeNames == {EmptyStr, NameBA, NameB_A}

EdgeStacks == {<<SELF, SELF, ModM>>, <<SELF, SELF, EmptyStr>>}

NamesNext ==
    \/ StartCreation(MainThread, EdgePairs, EdgeNames, {None}, EdgeStacks)
    \/ StepCreation(MainThread)
    \/ Clear

NamesSpec == Init /\ [][NamesNext]_vars

-----------------------------------------------------------------------------
\* Properties.

CreationOps == {"call", "sentinel"}
CopyOps == {"copy", "deepcopy", "deepcopy_container"}

Returned(t) == pc[t] = "done" /\ frame[t].ret # None
Result(t) == frame[t].ret[1]
PairOf(t) == <<frame[t].instance_name, frame[t].module_name>>
NoFrameOutside(stack) == \A i \in DOMAIN stack : stack[i] = SELF

\* C1: a creation call for a pair (instance_name, module_name) returns the
\* instance the first call for that pair returned since the registry was
\* last cleared, and a call never raises because the name is registered:
\* the only call that raises is a sentinel() whose caller module is unknown.
C1_SameInstancePerPair ==
    \A t \in Threads :
        /\ (Returned(t) /\ frame[t].op \in CreationOps) =>
               /\ PairOf(t) \in DOMAIN first
               /\ Result(t) = first[PairOf(t)]
        /\ pc[t] = "raised" =>
               /\ frame[t].op = "sentinel"
               /\ NoFrameOutside(frame[t].stack)
               /\ frame[t].obj = NoObject

\* A call that found the name registered returns what the first call returned.
C1_Witness ==
    \E t \in Threads :
        /\ Returned(t) /\ frame[t].op = "sentinel" /\ ~frame[t].created
        /\ Result(t) = first[PairOf(t)]
        /\ Result(t) \in held

\* C2: when threads create concurrently, at most one object is ever
\* constructed for a qualified name, it is the one the registry holds, every
\* call for that qualified name returns it, and no call raises but a
\* sentinel() whose caller module is unknown.
C2_OneInstanceUnderConcurrency ==
    /\ \A o \in DOMAIN objects :
           /\ o[2] = 1
           /\ o[1] \in DOMAIN sentinel_value_instances
           /\ sentinel_value_instances[o[1]] = o
    /\ \A t \in Threads :
           /\ (Returned(t) /\ frame[t].op \in CreationOps) =>
                  /\ Result(t) = <<QualifiedNameOf(t), 1>>
                  /\ Result(t) \in DOMAIN objects
           /\ pc[t] = "raised" =>
                  frame[t].op = "sentinel" /\ NoFrameOutside(frame[t].stack)
    /\ \A t, u \in Threads :
           (/\ Returned(t) /\ Returned(u)
            /\ QualifiedNameOf(t) = QualifiedNameOf(u)) => Result(t) = Result(u)

\* Two calls for one qualified name overlapped; one constructed the object,
\* the other found it, and both have returned it.
C2_Witness ==
    \E t, u \in Threads :
        /\ t # u /\ Returned(t) /\ Returned(u)
        /\ QualifiedNameOf(t) = QualifiedNameOf(u)
        /\ frame[t].created /\ ~frame[u].created
        /\ Result(t) = Result(u)

\* C3: creation calls whose (instance_name, module_name) pairs differ return
\* distinct instances.
C3_DistinctPairsDistinctInstances ==
    \A p1, p2 \in DOMAIN first : p1 # p2 => first[p1] # first[p2]

\* C4: a creation call that finds the name registered through a class that
\* is not the instance's class returns the registered instance, leaves the
\* registry as it was, and the instance then has the class of the call; the
\* class of an instance changes in no other way.
C4_HitStep ==
    \A t \in Threads :
        (/\ pc[t] = "new_body" /\ pc'[t] # "new_body"
         /\ frame[t].existing_instance # None) =>
            /\ sentinel_value_instances' = sentinel_value_instances
            /\ frame'[t].obj = sentinel_value_instances[QualifiedNameOf(t)]
            /\ objects'[frame'[t].obj].cls = frame[t].cls
            /\ DOMAIN objects' = DOMAIN objects

C4_ClassChangesOnlyByRebinding ==
    \A o \in DOMAIN objects \cap DOMAIN objects' :
        objects'[o].cls # objects[o].cls =>
            \E t \in Threads :
                /\ pc[t] = "new_body"
                /\ frame[t].existing_instance = Some(o)
                /\ objects'[o].cls = frame[t].cls

C4_AtReturn ==
    \A t \in Threads :
        (Returned(t) /\ frame[t].op \in CreationOps) =>
            /\ objects[Result(t)].cls = frame[t].cls
            /\ sentinel_value_instances[QualifiedNameOf(t)] = Result(t)

C4_RebindKeepsIdentity ==
    /\ []C4_AtReturn
    /\ [][C4_HitStep /\ C4_ClassChangesOnlyByRebinding]_vars

\* Missing("...") has returned the instance that SentinelValue or sentinel()
\* had created, now of class Missing.
C4_Witness ==
    \E t \in Threads :
        /\ Returned(t) /\ frame[t].op = "call" /\ frame[t].cls = MissingClass
        /\ frame[t].rebound /\ ~frame[t].created
        /\ objects[Result(t)].cls = MissingClass
        /\ Result(t) = first[PairOf(t)]

\* C5: unpickling the bytes of a sentinel that is still registered returns
\* that very sentinel: __new__ is called with its (instance_name,
\* module_name), finds it, and constructs nothing.
C5_PickleRoundTrip ==
    \A t \in Threads :
        (Returned(t) /\ frame[t].op = "loads" /\ frame[t].src # NoObject) =>
            /\ Result(t) = frame[t].src
            /\ ~frame[t].created
            /\ sentinel_value_instances[QualifiedNameOf(t)] = Result(t)
            /\ \A o \in DOMAIN objects : o[2] = 1

\* The sentinel of a class made by sentinel() came back from its bytes.
C5_Witness ==
    \E t \in Threads :
        /\ Returned(t) /\ frame[t].op = "loads" /\ frame[t].src # NoObject
        /\ Result(t) = frame[t].src
        /\ frame[t].cls \notin CallClasses

\* C6: copy.copy and copy.deepcopy of a registered sentinel return the
\* sentinel itself, the deep copy of a container holds the very sentinels of
\* the container, and no step of a copy changes the registry or constructs
\* an object.
C6_CopyResult ==
    \A t \in Threads :
        /\ (Returned(t) /\ frame[t].op \in {"copy", "deepcopy"}) =>
               Result(t) = frame[t].work[1]
        /\ (pc[t] = "done" /\ frame[t].op = "deepcopy_container") =>
               frame[t].out = frame[t].work

C6_CopyStep ==
    (\E t \in Threads : frame[t].op \in CopyOps) =>
        /\ sentinel_value_instances' = sentinel_value_instances
        /\ DOMAIN objects' = DOMAIN objects

C6_CopyPreservesIdentity == []C6_CopyResult /\ [][C6_CopyStep]_vars

\* A container of two different sentinels has been deep-copied.
C6_Witness ==
    \E t \in Threads :
        /\ pc[t] = "done" /\ frame[t].op = "deepcopy_container"
        /\ Len(frame[t].work) = 2 /\ frame[t].work[1] # frame[t].work[2]
        /\ frame[t].out = frame[t].work

\* C7: every sentinel a caller has is false in a boolean context, whatever
\* calls, rebindings, copies and unpicklings came after its creation.
C7_AlwaysFalsy ==
    /\ \A o \in held : ~Bool(o)
    /\ \A t \in Threads : Returned(t) => ~Bool(Result(t))

\* A sentinel rebound to a generated class with a custom repr, and a second
\* sentinel, are both false.
C7_Witness ==
    \E o \in held, o2 \in held :
        /\ o # o2
        /\ objects[o].cls \notin CallClasses
        /\ LookupMethod(objects[o].cls, "__repr__").kind = "const"
        /\ ~Bool(o) /\ ~Bool(o2)

\* C8: the repr of what sentinel() returns is the repr argument of the call
\* when a non-empty one was given, and "<" + instance_name + ">" when none
\* was given.
C8_ReprOfSentinelCall ==
    \A t \in Threads :
        (Returned(t) /\ frame[t].op = "sentinel") =>
            /\ Truthy(frame[t].repr) => Repr(Result(t)) = frame[t].repr[1]
            /\ frame[t].repr = None =>
                   Repr(Result(t)) = <<"<">> \o frame[t].instance_name \o <<">">>

\* C9: what SentinelValue(instance_name, module_name), or the same call on a
\* subclass that overrides nothing, returns has the str and the repr
\* "<" + instance_name + ">", also when the instance existed before.
C9_StrAndRepr ==
    \A t \in Threads :
        (Returned(t) /\ frame[t].op = "call") =>
            /\ Repr(Result(t)) = <<"<">> \o frame[t].instance_name \o <<">">>
            /\ Str(Result(t)) = <<"<">> \o frame[t].instance_name \o <<">">>

\* SentinelValue("A", "m.B") has returned an instance that sentinel() had
\* given a custom repr and that was re-requested: its repr is "<A>".
C9_Witness ==
    \E t \in Threads :
        /\ Returned(t) /\ frame[t].op = "call" /\ frame[t].cls = SentinelValueClass
        /\ frame[t].rebound /\ frame[t].module_name = ModMB
        /\ \E c \in DOMAIN classes :
               c \notin CallClasses /\ LookupMethod(c, "__repr__").kind = "const"
        /\ Repr(Result(t)) = <<"<", "A", ">">>

\* C10: a sentinel() call made where no frame outside the sentinel_value
\* module can be found raises, and leaves the registry, the objects, the
\* classes and the modules' attributes as they were.
C10_FailedCallStep ==
    \A t \in Threads :
        (/\ pc[t] = "idle" /\ pc'[t] # "idle"
         /\ frame'[t].op = "sentinel"
         /\ NoFrameOutside(frame'[t].stack)) =>
            /\ pc'[t] = "raised"
            /\ UNCHANGED <<sentinel_value_instances, objects, classes, module_attrs>>

C10_RaisedState ==
    \A t \in Threads :
        pc[t] = "raised" =>
            /\ frame[t].obj = NoObject /\ frame[t].cls = NoClass
            /\ frame[t].ret = None /\ frame[t].module_name = <<>>

C10_AssertionErrorWithoutCaller == []C10_RaisedState /\ [][C10_FailedCallStep]_vars

\* sentinel() has raised on a stack that lies in the sentinel_value module
\* only, while a sentinel was registered.
C10_Witness ==
    \E t \in Threads :
        /\ pc[t] = "raised" /\ frame[t].op = "sentinel"
        /\ frame[t].stack = <<SELF, SELF>>
        /\ sentinel_value_instances # EmptyDict

\* C11: a creation call with an empty instance name or an empty module name
\* raises before it reads or writes the registry: no such call gets to the
\* lookup, and the registry never has a key composed with an empty name
\* (one that begins or ends with the "." it is joined with).
C11_EmptyNameRejected ==
    /\ \A t \in Threads :
           (/\ frame[t].op \in CreationOps
            /\ (frame[t].instance_name = EmptyStr \/ frame[t].module_name = EmptyStr)) =>
               pc[t] \notin {"new_body", "init", "done"}
    /\ \A q \in DOMAIN sentinel_value_instances :
           Head(q) # "." /\ q[Len(q)] # "."

\* C12: what sentinel(instance_name) returns, called again and again from
\* one module, is an instance of the one class bound on the module as
\* "_sentinel_" + name, a class derived from SentinelValue and not
\* SentinelValue itself; no second class is ever created under a name.
C12_OneClassPerName ==
    /\ \A t \in Threads :
           (Returned(t) /\ frame[t].op = "sentinel") =>
               LET c == objects[Result(t)].cls IN
               /\ c = <<frame[t].module_name, SentinelClassName(frame[t].instance_name), 1>>
               /\ module_attrs[ClassKey(t)] = c
               /\ c # SentinelValueClass
               /\ classes[c].base = SentinelValueClass
    /\ \A c \in DOMAIN classes : c[3] = 1

\* A repeated sentinel("A") has returned the existing instance, which a
\* call through another class had rebound in between, as an instance of the
\* class _sentinel_A again.
C12_Witness ==
    \E t \in Threads :
        /\ Returned(t) /\ frame[t].op = "sentinel" /\ frame[t].instance_name = NameA
        /\ ~frame[t].created /\ frame[t].rebound
        /\ objects[Result(t)].cls = <<ModM, SentinelClassName(NameA), 1>>

\* C13: an instance registers itself when it is instantiated, and
\* instantiating one for a qualified name that is already registered throws
\* an error: every creation call that gets past __new__ has constructed its
\* instance, and the registry holds it.
C13_RegisteredNameThrows ==
    \A t \in Threads :
        (frame[t].op \in CreationOps /\ pc[t] \in {"init", "done"}) =>
            /\ frame[t].created
            /\ sentinel_value_instances[QualifiedNameOf(t)] = frame[t].obj

\* C14: on the creation path the registry is read and written, and the class
\* of a registered instance is rebound, only by the thread that holds
\* sentinel_create_lock; at most one thread is between its lookup and its
\* return from __new__, and what it looked up is still what the registry
\* holds when it acts on it.
C14_InsideSection ==
    /\ \A t \in Threads : pc[t] = "new_body" <=> sentinel_create_lock = Some(t)
    /\ \A t, u \in Threads : (pc[t] = "new_body" /\ pc[u] = "new_body") => t = u
    /\ \A t \in Threads :
           pc[t] = "new_body" =>
               frame[t].existing_instance = DictGet(sentinel_value_instances, QualifiedNameOf(t))

C14_LookupUnderLock ==
    \A t \in Threads :
        (pc[t] = "new_enter" /\ pc'[t] # "new_enter") =>
            /\ sentinel_create_lock = None
            /\ sentinel_create_lock' = Some(t)
            /\ frame'[t].existing_instance =
                   DictGet(sentinel_value_instances, QualifiedNameOf(t))

C14_WriteUnderLock ==
    (\/ sentinel_value_instances' # sentinel_value_instances
     \/ DOMAIN objects' # DOMAIN objects
     \/ \E o \in DOMAIN objects \cap DOMAIN objects' : objects'[o].cls # objects[o].cls) =>
        \/ Clear
        \/ \E t \in Threads :
               /\ sentinel_create_lock = Some(t)
               /\ pc[t] = "new_body" /\ pc'[t] # "new_body"
               /\ \A u \in Threads \ {t} : pc'[u] = pc[u]

C14_LockDiscipline ==
    []C14_InsideSection /\ [][C14_LookupUnderLock /\ C14_WriteUnderLock]_vars

\* A thread holds the lock with a registered instance of another class
\* looked up, about to rebind it, while the other thread waits to enter.
C14_Witness ==
    \E t, u \in Threads :
        /\ t # u /\ sentinel_create_lock = Some(t) /\ pc[t] = "new_body"
        /\ frame[t].existing_instance # None
        /\ objects[frame[t].existing_instance[1]].cls # frame[t].cls
        /\ pc[u] = "new_enter" /\ QualifiedNameOf(u) = QualifiedNameOf(t)

\* C15: when threads call sentinel(instance_name) concurrently from one
\* module, exactly one class is created for the name, and once all calls
\* have returned every instance of a class made by sentinel() has the class
\* that is bound on the module under that name.
C15_OneSubclassUnderConcurrency ==
    /\ \A c \in DOMAIN classes : c[3] = 1
    /\ Quiescent =>
           \A o \in DOMAIN objects :
               objects[o].cls \notin CallClasses =>
                   module_attrs[ClassRef(objects[o].cls)] = objects[o].cls

\* C16: an entry of the registry stays as it is until the registry is
\* cleared: no step of a creation, a rebinding, a copy or an unpickling
\* removes a qualified name from it or maps it to another instance, and the
\* instance stays an object.
C16_EntriesKept ==
    \/ Clear
    \/ \A q \in DOMAIN sentinel_value_instances :
           /\ q \in DOMAIN sentinel_value_instances'
           /\ sentinel_value_instances'[q] = sentinel_value_instances[q]
           /\ sentinel_value_instances[q] \in DOMAIN objects'

C16_RegistryStable == [][C16_EntriesKept]_vars

\* With two names registered, an unpickling has found its instance and
\* rebound its class, and both entries are in place.
C16_Witness ==
    \E t \in Threads :
        /\ Returned(t) /\ frame[t].op = "loads" /\ frame[t].rebound
        /\ Cardinality(DOMAIN sentinel_value_instances) >= 2
        /\ \A q \in DOMAIN sentinel_value_instances :
               sentinel_value_instances[q] = <<q, 1>>

\* C17: sentinels that sentinel() made under different qualified names have
\* different classes: no two instances share a class made by sentinel().
C17_DistinctNamesDistinctClasses ==
    \A o1, o2 \in DOMAIN objects :
        (o1 # o2 /\ objects[o1].cls \notin CallClasses) =>
            objects[o1].cls # objects[o2].cls

\* C18: _get_caller_module_name returns the module of the first frame, from
\* the innermost outward, that is not in the sentinel_value module, and None
\* exactly when the stack has no such frame; each iteration moves one frame
\* outward, and the walk ends on every stack.  sentinel() resolves its
\* caller to the same result.
C18_WalkResult ==
    \A t \in Threads :
        (pc[t] = "done" /\ frame[t].op = "get_caller") =>
            LET stack == frame[t].stack
                r == frame[t].caller IN
            /\ r = None <=> NoFrameOutside(stack)
            /\ r # None =>
                   \E i \in DOMAIN stack :
                       /\ stack[i] = r[1] /\ stack[i] # SELF
                       /\ \A j \in 1..(i - 1) : stack[j] = SELF
            /\ r = GetCallerModuleName(stack)

C18_WalkMovesOutward ==
    \A t \in Threads :
        (pc[t] = "walk" /\ pc'[t] = "walk") =>
            /\ frame'[t].rest = Tail(frame[t].rest)
            /\ Head(frame[t].rest) = SELF

C18_FirstFrameOutside ==
    /\ []C18_WalkResult
    /\ [][C18_WalkMovesOutward]_vars
    /\ \A t \in Threads : (pc[t] = "walk") ~> (pc[t] = "done")

\* The walk has passed two frames of this module and returned the module of
\* the first of two different frames outside.
C18_Witness ==
    \E t \in Threads :
        /\ pc[t] = "done" /\ frame[t].op = "get_caller"
        /\ frame[t].stack = <<SELF, SELF, ModMB, ModM>>
        /\ frame[t].rest = <<ModMB, ModM>>
        /\ frame[t].caller = Some(ModMB)

\* C19: under fair scheduling every creation call that has started comes to
\* its return or its exception; the lock is released when the guarded
\* section is left, on the hit path, on the miss path and when the
\* construction raises, and it is free whenever no thread is inside the
\* section.
C19_LockFreeOutside ==
    (\A t \in Threads : pc[t] # "new_body") => sentinel_create_lock = None

C19_ExitReleases ==
    \A t \in Threads :
        (pc[t] = "new_body" /\ pc'[t] # "new_body") => sentinel_create_lock' = None

C19_EveryCallEnds ==
    /\ []C19_LockFreeOutside
    /\ [][C19_ExitReleases]_vars
    /\ \A t \in Threads : (pc[t] # "idle") ~> (pc[t] \in {"done", "raised"})

\* The construction raised in one thread; the other, which had waited, has
\* the lock now.
C19_Witness ==
    \E t, u \in Threads :
        /\ pc[t] = "raised" /\ frame[t].op = "call"
        /\ pc[u] = "new_body" /\ sentinel_create_lock = Some(u)
        /\ sentinel_value_instances = EmptyDict

\* C20: unpickling bytes whose qualified name is not registered (the
\* registry was cleared since they were made) constructs a new instance,
\* registers it under the qualified name of the pickled sentinel, and gives
\* it the pickled instance_name, module_name and qualified_name and the
\* class the bytes name; unpickling the bytes again returns that instance.
C20_FreshConstruction ==
    \A t \in Threads :
        (/\ pc[t] = "new_body" /\ pc'[t] # "new_body" /\ frame[t].op = "loads"
         /\ QualifiedNameOf(t) \notin DOMAIN sentinel_value_instances) =>
            /\ frame'[t].created
            /\ frame'[t].obj \notin DOMAIN objects
            /\ frame'[t].obj \in DOMAIN objects'
            /\ DictGet(sentinel_value_instances', QualifiedNameOf(t)) = Some(frame'[t].obj)

C20_AtReturn ==
    \A t \in Threads :
        (Returned(t) /\ frame[t].op = "loads") =>
            LET o == Result(t)
                b == pickled[1] IN
            /\ DictGet(sentinel_value_instances, b.state["qualified_name"]) = Some(o)
            /\ objects[o].dict = b.state
            /\ objects[o].cls = module_attrs[b.cls]
            /\ frame[t].created => frame[t].src = NoObject

C20_UnpickleAfterClear == []C20_AtReturn /\ [][C20_FreshConstruction]_vars

\* After a clear, the bytes of a sentinel made by sentinel() were unpickled
\* a second time: the call constructed nothing and returned an instance
\* that no creation call has returned since the clear.
C20_Witness ==
    \E t \in Threads :
        /\ Returned(t) /\ frame[t].op = "loads"
        /\ frame[t].src = NoObject /\ ~frame[t].created
        /\ frame[t].cls \notin CallClasses
        /\ first = EmptyDict
        /\ objects[Result(t)].dict = pickled[1].state

\* C21: once the creation call that constructed a sentinel has set its
\* instance_name, module_name and qualified_name, no later step changes
\* them: a creation call that hits the same registry entry re-runs __init__
\* and leaves the three attributes as they were.
C21_NamesKept ==
    \A o \in DOMAIN objects \cap DOMAIN objects' :
        "instance_name" \in DOMAIN objects[o].dict =>
            objects'[o].dict = objects[o].dict

C21_NamesNeverChange == [][C21_NamesKept]_vars

\* C22: unpickling or copying a sentinel whose qualified name is registered
\* is a lookup: the step of __new__ that finds the instance leaves the
\* registry, the set of objects and the class of every object as they were,
\* also when the instance was rebound after the bytes were made.
C22_LookupOnly ==
    \A t \in Threads :
        (/\ frame[t].op \in CopyOps \cup {"loads"}
         /\ pc[t] = "new_body" /\ pc'[t] # "new_body"
         /\ QualifiedNameOf(t) \in DOMAIN sentinel_value_instances) =>
            /\ sentinel_value_instances' = sentinel_value_instances
            /\ DOMAIN objects' = DOMAIN objects
            /\ \A o \in DOMAIN objects : objects'[o].cls = objects[o].cls

C22_UnpickleNeverRetypes == [][C22_LookupOnly]_vars

\* C23: a step of a creation call for the qualified name q leaves every
\* other qualified name alone: one that is registered stays registered with
\* the same instance, of the same class, and one that is not registered
\* does not get registered.
C23_OtherNamesUntouched ==
    \A t \in Threads :
        (frame[t].op \in CreationOps /\ pc'[t] # pc[t]) =>
            /\ \A q \in DOMAIN sentinel_value_instances \ {QualifiedNameOf(t)} :
                   LET o == sentinel_value_instances[q] IN
                   /\ DictGet(sentinel_value_instances', q) = Some(o)
                   /\ o \in DOMAIN objects'
                   /\ objects'[o].cls = objects[o].cls
            /\ DOMAIN sentinel_value_instances' \subseteq
                   DOMAIN sentinel_value_instances \cup {QualifiedNameOf(t)}

C23_CreationFrame == [][C23_OtherNamesUntouched]_vars

\* A creation call has rebound the instance of its name to its class while
\* another name is registered with an instance of another class.
C23_Witness ==
    \E t \in Threads :
        /\ Returned(t) /\ frame[t].op \in CreationOps /\ frame[t].rebound
        /\ \E q \in DOMAIN sentinel_value_instances \ {QualifiedNameOf(t)} :
               objects[sentinel_value_instances[q]].cls # frame[t].cls

====
